---- MODULE Spec2Model ----
(***************************************************************************)
(* DayBetter light local: the coordinator (state cache, liveness sweep,    *)
(* notification registry, command dispatch) and the parts of the light and *)
(* switch platforms that call into it.                                     *)
(***************************************************************************)
EXTENDS Integers, Sequences, FiniteSets, TLC

\* ------------------------------------------------------------------ bounds

\* Number of steps (handler runs and clock advances) of a run.
MaxSteps == 6
\* The clock stops here.
MaxTime == 182
\* The seconds that can pass between two steps.
Delays == {45, 91}

\* ---------------------------------------------------------------- constants

\* The literal of the sweep's comparison, coordinator.py line 296.
OfflineLiteral == 90
\* const.py DEVICE_OFFLINE_THRESHOLD.
DEVICE_OFFLINE_THRESHOLD == 10

\* ------------------------------------------------------------------ values

\* Python's None, and a present value, for the optional attributes.
None == <<>>
Some(v) == <<v>>

Fingerprints == {"AA:BB", "CC:DD"}

\* device.sku of each device.
Sku == [f \in Fingerprints |-> IF f = "AA:BB" THEN "P076" ELSE "P0A1"]

\* device.capabilities.features of each device ({} : no capabilities).
Features ==
  [f \in Fingerprints |->
     IF f = "AA:BB"
     THEN {"BRIGHTNESS", "COLOR_RGB", "COLOR_KELVIN_TEMPERATURE", "SCENES"}
     ELSE {}]

\* The callbacks entities hand to register_device_entity: the light entity's
\* _handle_state_update and one more subscriber.
Callbacks == {"light", "cb"}

\* The subscribers whose callback raises when it is invoked.
Raising == {"cb"}

\* The attribute values the device object of fp can carry after the library
\* parsed a datagram of the device: a plug reports on/off only.
DeviceStates(fp) ==
  IF fp = "AA:BB"
  THEN { [on |-> FALSE, brightness |-> 0, rgb_color |-> None,
          temperature_color |-> None, scene |-> None],
         [on |-> TRUE, brightness |-> 50, rgb_color |-> Some(<<10, 20, 30>>),
          temperature_color |-> None, scene |-> None],
         [on |-> TRUE, brightness |-> 50, rgb_color |-> Some(<<10, 20, 30>>),
          temperature_color |-> Some(4000), scene |-> None] }
  ELSE { [on |-> b, brightness |-> 0, rgb_color |-> None,
          temperature_color |-> None, scene |-> None] : b \in BOOLEAN }

\* ------------------------------------------------------------------- state

VARIABLES
  now,                      \* time.time()
  device_state_cache,       \* fingerprint -> snapshot (a dict: partial function)
  device_last_response,     \* fingerprint -> time of the last message
  response_order,           \* key order of device_last_response (insertion order)
  device_entity_callbacks,  \* fingerprint -> list of callbacks
  known_devices,            \* set of fingerprints
  discovery_callback,       \* None, or Some(platform) of the registered handler
  discovery_handlers,       \* the platforms whose handler was passed to set_discovery_callback
  device,                   \* fingerprint -> attributes of the device object
  update_callback,          \* fingerprint -> the device object's update callback slot
  light,                    \* fingerprint -> the light entity built for it
  call,                     \* the entity service call in flight
  notified,                 \* callbacks invoked by the last step, in order
  transport,                \* transport calls made by the last step, in order
  outcome,                  \* what the last step was and how it ended
  steps                     \* steps the run has taken

vars ==
  << now, device_state_cache, device_last_response, response_order,
     device_entity_callbacks, known_devices, discovery_callback,
     discovery_handlers, device,
     update_callback, light, call, notified, transport, outcome,
     steps >>


\* ------------------------------------------------------------ dictionaries

\* d[k] = v of a Python dict.
Put(d, k, v) == [x \in (DOMAIN d) \cup {k} |-> IF x = k THEN v ELSE d[x]]

\* The key order of a dict after d[k] = v: a new key goes last.
PutOrder(order, d, k) == IF k \in DOMAIN d THEN order ELSE Append(order, k)

EmptyDict == [x \in {} |-> None]

\* ------------------------------------------------------------- coordinator

\* _update_device_state_cache writing only a snapshot that exists.
update_device_state_cache_existing(c, fp, dev, t) ==
  IF fp \in DOMAIN c
  THEN [c EXCEPT ![fp] = [@ EXCEPT !.on = dev.on, !.brightness = dev.brightness,
                                   !.rgb_color = dev.rgb_color,
                                   !.temperature_color = dev.temperature_color,
                                   !.scene = dev.scene, !.last_updated = t,
                                   !.online = TRUE]]
  ELSE c

\* _update_device_state_cache leaving the snapshot offline.
update_device_state_cache_offline(c, fp, dev, t) ==
  Put(c, fp,
      [on |-> dev.on,
       brightness |-> dev.brightness,
       rgb_color |-> dev.rgb_color,
       temperature_color |-> dev.temperature_color,
       scene |-> dev.scene,
       sku |-> Sku[fp],
       last_updated |-> t,
       online |-> FALSE])

\* _update_device_state_cache: every key of the snapshot is written.
update_device_state_cache(c, fp, dev, t) ==
  Put(c, fp,
      [on |-> dev.on,
       brightness |-> dev.brightness,
       rgb_color |-> dev.rgb_color,
       temperature_color |-> dev.temperature_color,
       scene |-> dev.scene,
       sku |-> Sku[fp],
       last_updated |-> t,
       online |-> TRUE])

\* _notify_device_entities without the try/except: the first callback that
\* raises ends the loop.
notify_device_entities_stopping(cbs, fp) ==
  IF fp \in DOMAIN cbs
  THEN LET raisers == {i \in 1..Len(cbs[fp]) : cbs[fp][i] \in Raising}
           last == IF raisers = {}
                   THEN Len(cbs[fp])
                   ELSE CHOOSE i \in raisers : \A j \in raisers : i <= j
       IN [i \in 1..last |->
             [fingerprint |-> fp, callback |-> cbs[fp][i],
              raised |-> cbs[fp][i] \in Raising]]
  ELSE <<>>

\* _notify_device_entities: the invocations it makes, in order; the exception
\* of a callback is caught and logged.
notify_device_entities(cbs, fp) ==
  IF fp \in DOMAIN cbs
  THEN [i \in 1..Len(cbs[fp]) |->
          [fingerprint |-> fp, callback |-> cbs[fp][i],
           raised |-> cbs[fp][i] \in Raising]]
  ELSE <<>>

\* is_device_online.
is_device_online(c, fp) == IF fp \in DOMAIN c THEN c[fp].online ELSE FALSE

\* get_cached_device_state: the snapshot, or the empty dict.
get_cached_device_state(c, fp) == IF fp \in DOMAIN c THEN Some(c[fp]) ELSE None

\* ------------------------------------------------------------ light entity

\* is_light_device.
is_light_device(fp) ==
  \/ Features[fp] \cap {"BRIGHTNESS", "COLOR_RGB", "COLOR_KELVIN_TEMPERATURE"} # {}
  \/ Sku[fp] \in {"P076", "P077", "P078"}

\* is_plug_device: capabilities without a light feature, or a plug sku (no sku
\* of the model holds one of the keywords plug, socket, switch).
is_plug_device(fp) ==
  \/ /\ Features[fp] # {}
     /\ Features[fp] \cap {"BRIGHTNESS", "COLOR_RGB", "COLOR_KELVIN_TEMPERATURE"} = {}
  \/ Sku[fp] \in {"P0A1", "P0A2"}

\* The class attributes of DayBetterLight: the entity before any refresh, with
\* the copies of the snapshot its accessors and service calls read.
NewLight ==
  [cached_on |-> FALSE, cached_brightness |-> 0, cached_rgb_color |-> None,
   cached_temperature_color |-> None]

\* DayBetterLight._update_state_from_cache.
update_state_from_cache(entity, c, fp) ==
  IF fp \in DOMAIN c
  THEN [cached_on |-> c[fp].on,
        cached_brightness |-> c[fp].brightness,
        cached_rgb_color |-> c[fp].rgb_color,
        cached_temperature_color |-> c[fp].temperature_color]
  ELSE entity

\* The light entities after the callbacks of `calls` ran: _handle_state_update
\* refreshes the entity from the cache.
lights_notified(lt, c, calls) ==
  [f \in DOMAIN lt |->
     IF \E i \in 1..Len(calls) :
          calls[i].fingerprint = f /\ calls[i].callback = "light"
     THEN update_state_from_cache(lt[f], c, f)
     ELSE lt[f]]

\* ---------------------------------------------------------------- the call

NoCommand == [name |-> "none", arg |-> None]
NoKwargs == [brightness |-> None, color |-> "none"]
NoCall ==
  [kind |-> "none", fingerprint |-> "", kwargs |-> NoKwargs, stage |-> 0,
   command |-> NoCommand]

Quiet == [op |-> "init", fingerprint |-> "", result |-> "ok", seen |-> None]

Init ==
  /\ now = 0
  /\ device_state_cache = EmptyDict
  /\ device_last_response = EmptyDict
  /\ response_order = <<>>
  /\ device_entity_callbacks = EmptyDict
  /\ known_devices = {}
  /\ discovery_callback = None
  /\ discovery_handlers = {}
  /\ device = EmptyDict
  /\ update_callback = EmptyDict
  /\ light = EmptyDict
  /\ call = NoCall
  /\ notified = <<>>
  /\ transport = <<>>
  /\ outcome = Quiet
  /\ steps = 0

\* Every step counts against the length of the run.
Count == steps < MaxSteps /\ steps' = steps + 1

\* The clock advances.
Tick(delay) ==
  /\ Count
  /\ now + delay <= MaxTime
  /\ now' = now + delay
  /\ notified' = <<>>
  /\ transport' = <<>>
  /\ outcome' = [op |-> "tick", fingerprint |-> "", result |-> "ok", seen |-> None]
  /\ UNCHANGED << device_state_cache, device_last_response, response_order,
                  device_entity_callbacks, known_devices, discovery_callback, discovery_handlers,
                  device, update_callback, light, call >>

\* set_discovery_callback, called by a platform's async_setup_entry.
set_discovery_callback(platform) ==
  /\ Count
  /\ discovery_callback' = Some(platform)
  /\ discovery_handlers' = discovery_handlers \cup {platform}
  /\ notified' = <<>>
  /\ transport' = <<>>
  /\ outcome' = [op |-> "set_discovery_callback", fingerprint |-> "",
                 result |-> "ok", seen |-> None]
  /\ UNCHANGED << now, device_state_cache, device_last_response, response_order,
                  device_entity_callbacks, known_devices, device,
                  update_callback, light, call >>


\* The callback slot of a device object (set_update_callback overwrites it).
slot_of(fp) == IF fp \in DOMAIN update_callback THEN update_callback[fp] ELSE "none"

\* _handle_device_update: last response, cache, notification.
handle_device_update(fp, dev) ==
  LET cache1 == update_device_state_cache(device_state_cache, fp, dev, now)
      calls == notify_device_entities(device_entity_callbacks, fp)
  IN /\ response_order' = PutOrder(response_order, device_last_response, fp)
     /\ device_last_response' = Put(device_last_response, fp, now)
     /\ device_state_cache' = cache1
     /\ light' = lights_notified(light, cache1, calls)
     /\ notified' = calls

\* _handle_device_discovery, with the discovery callback of the platform that
\* registered last: light.py builds a DayBetterLight, switch.py builds a
\* DayBetterplugSwitch, whose constructor installs its update callback and then
\* raises (the coordinator has no get_device_state).
handle_device_discovery(fp, dev, is_new) ==
  LET known1 == known_devices \cup {fp}
      cache1 == update_device_state_cache(device_state_cache, fp, dev, now)
      invoke == is_new /\ discovery_callback # None
      platform == IF invoke THEN discovery_callback[1] ELSE "none"
      builds_light == platform = "light" /\ is_light_device(fp)
      builds_switch == platform = "switch" /\ is_plug_device(fp)
      calls == IF ~is_new
               THEN notify_device_entities(device_entity_callbacks, fp)
               ELSE <<>>
  IN /\ known_devices' = known1
     /\ response_order' = PutOrder(response_order, device_last_response, fp)
     /\ device_last_response' = Put(device_last_response, fp, now)
     /\ device_state_cache' = cache1
     /\ update_callback' =
          Put(update_callback, fp,
              IF builds_light
              THEN (IF fp \in DOMAIN light THEN "duplicate_light" ELSE "light")
              ELSE IF builds_switch THEN "switch" ELSE "coordinator")
     /\ light' =
          IF builds_light /\ fp \notin DOMAIN light
          THEN Put(light, fp, update_state_from_cache(NewLight, cache1, fp))
          ELSE lights_notified(light, cache1, calls)
     /\ notified' = calls
     /\ outcome' =
          [op |-> "discovery", fingerprint |-> fp,
           result |-> IF builds_switch THEN "raised" ELSE "ok",
           seen |-> IF invoke
                    THEN Some([known |-> fp \in known1,
                               snapshot |-> get_cached_device_state(cache1, fp),
                               handler |-> platform])
                    ELSE None]

\* A discovery announcement of device fp, parsed by the library into dev; the
\* library calls the coordinator once set_discovery_callback has wired it.
Discovery(fp, dev, is_new) ==
  /\ Count
  /\ device' = Put(device, fp, dev)
  /\ transport' = <<>>
  /\ IF discovery_callback # None
     THEN handle_device_discovery(fp, dev, is_new)
     ELSE /\ notified' = <<>>
          /\ outcome' = [op |-> "unwired", fingerprint |-> fp, result |-> "ok",
                         seen |-> None]
          /\ UNCHANGED << device_state_cache, device_last_response,
                          response_order, known_devices, update_callback, light >>
  /\ UNCHANGED << now, device_entity_callbacks, discovery_callback, discovery_handlers, call >>

\* A status push of device fp: the library updates the device object and calls
\* the callback in its slot.
StatusPush(fp, dev, hass_raises) ==
  /\ fp \in DOMAIN device
  /\ Count
  /\ device' = Put(device, fp, dev)
  /\ transport' = <<>>
  /\ outcome' = [op |-> "status", fingerprint |-> fp, result |-> "ok", seen |-> None]
  /\ IF \/ slot_of(fp) = "coordinator"
        \/ slot_of(fp) = "switch" /\ ~hass_raises
     THEN handle_device_update(fp, dev)
     ELSE /\ light' =
               IF slot_of(fp) = "light"
               THEN [light EXCEPT ![fp] =
                       update_state_from_cache(@, device_state_cache, fp)]
               ELSE light
          /\ notified' = <<>>
          /\ UNCHANGED << device_state_cache, device_last_response, response_order >>
  /\ UNCHANGED << now, device_entity_callbacks, known_devices, discovery_callback, discovery_handlers,
                  update_callback, call >>

\* The registered callbacks of a fingerprint.
callbacks_of(cbs, fp) == IF fp \in DOMAIN cbs THEN cbs[fp] ELSE <<>>

InSeq(x, s) == \E i \in 1..Len(s) : s[i] = x

\* list.remove: the first occurrence goes.
Remove(s, x) ==
  LET i == CHOOSE k \in 1..Len(s) : s[k] = x /\ \A j \in 1..(k - 1) : s[j] # x
  IN SubSeq(s, 1, i - 1) \o SubSeq(s, i + 1, Len(s))

\* register_device_entity without the membership test.
registered_duplicating(cbs, fp, cb) ==
  Put(cbs, fp, Append(callbacks_of(cbs, fp), cb))

\* The registry after register_device_entity.
registered(cbs, fp, cb) ==
  Put(cbs, fp,
      IF InSeq(cb, callbacks_of(cbs, fp))
      THEN callbacks_of(cbs, fp)
      ELSE Append(callbacks_of(cbs, fp), cb))

\* The registry after unregister_device_entity.
unregistered(cbs, fp, cb) ==
  IF fp \in DOMAIN cbs /\ InSeq(cb, cbs[fp])
  THEN [cbs EXCEPT ![fp] = Remove(@, cb)]
  ELSE cbs

\* register_device_entity; the light entity registers from async_added_to_hass.
register_device_entity(fp, cb) ==
  /\ Count
  /\ cb = "light" => fp \in DOMAIN light
  /\ device_entity_callbacks' = registered(device_entity_callbacks, fp, cb)
  /\ notified' = <<>>
  /\ transport' = <<>>
  /\ outcome' = [op |-> "register", fingerprint |-> fp,
                 result |-> IF InSeq(cb, callbacks_of(device_entity_callbacks, fp))
                            THEN "noop" ELSE "ok",
                 seen |-> Some(cb)]
  /\ UNCHANGED << now, device_state_cache, device_last_response, response_order,
                  known_devices, discovery_callback, discovery_handlers, device, update_callback,
                  light, call >>

\* unregister_device_entity.
unregister_device_entity(fp, cb) ==
  /\ Count
  /\ device_entity_callbacks' = unregistered(device_entity_callbacks, fp, cb)
  /\ notified' = <<>>
  /\ transport' = <<>>
  /\ outcome' = [op |-> "unregister", fingerprint |-> fp,
                 result |-> IF InSeq(cb, callbacks_of(device_entity_callbacks, fp))
                            THEN "ok" ELSE "noop",
                 seen |-> Some(cb)]
  /\ UNCHANGED << now, device_state_cache, device_last_response, response_order,
                  known_devices, discovery_callback, discovery_handlers, device, update_callback,
                  light, call >>


\* ---------------------------------------------------------------- commands

\* The cache writes of turn_on .. set_scene after the awaited device call.
turn_on(snap, t) == [snap EXCEPT !.on = TRUE, !.last_updated = t]

turn_off(snap, t) == [snap EXCEPT !.on = FALSE, !.last_updated = t]

set_brightness(snap, brightness, t) ==
  [snap EXCEPT !.brightness = brightness, !.last_updated = t]

set_rgb_color(snap, rgb, t) ==
  [snap EXCEPT !.rgb_color = Some(rgb), !.temperature_color = None,
               !.last_updated = t]

\* set_temperature leaving rgb_color as it is.
set_temperature_keeping_rgb(snap, temperature, t) ==
  [snap EXCEPT !.temperature_color = Some(temperature), !.last_updated = t]

set_temperature(snap, temperature, t) ==
  [snap EXCEPT !.temperature_color = Some(temperature), !.rgb_color = None,
               !.last_updated = t]

set_scene(snap, scene, t) == [snap EXCEPT !.scene = Some(scene), !.last_updated = t]

\* command_write storing a snapshot rebuilt from the command alone.
command_write_resetting(snap, cmd, t) ==
  [snap EXCEPT !.on = (cmd.name # "turn_off"), !.brightness = 0,
               !.scene = None, !.last_updated = t]

\* The cache write of the command cmd.
command_write(snap, cmd, t) ==
  CASE cmd.name = "turn_on" -> turn_on(snap, t)
    [] cmd.name = "turn_off" -> turn_off(snap, t)
    [] cmd.name = "set_brightness" -> set_brightness(snap, cmd.arg[1], t)
    [] cmd.name = "set_rgb_color" -> set_rgb_color(snap, cmd.arg[1], t)
    [] cmd.name = "set_temperature" -> set_temperature(snap, cmd.arg[1], t)
    [] cmd.name = "set_scene" -> set_scene(snap, cmd.arg[1], t)

\* command_succeeded creating the snapshot of a fingerprint that has none.
command_succeeded_creating(c, fp, cmd, t) ==
  LET snap == IF fp \in DOMAIN c
              THEN c[fp]
              ELSE [on |-> FALSE, brightness |-> 0, rgb_color |-> None,
                    temperature_color |-> None, scene |-> None, sku |-> Sku[fp],
                    last_updated |-> t, online |-> TRUE]
  IN Put(c, fp, command_write(snap, cmd, t))

\* command_succeeded without the cache write.
command_succeeded_unwritten(c, fp, cmd, t) == c

\* The cache after a command whose device call returned: written only when the
\* fingerprint has a snapshot.
command_succeeded(c, fp, cmd, t) ==
  IF fp \in DOMAIN c THEN [c EXCEPT ![fp] = command_write(@, cmd, t)] ELSE c

\* The notification of a command whose device call returned.
command_notifies(c, cbs, fp) ==
  IF fp \in DOMAIN c THEN notify_device_entities(cbs, fp) ELSE <<>>

\* command_failed marking the device offline.
command_failed_offline(c, fp, cmd, t) ==
  IF fp \in DOMAIN c THEN [c EXCEPT ![fp].online = FALSE] ELSE c

\* command_failed writing the cache before the device call is known to succeed.
command_failed_written(c, fp, cmd, t) == command_succeeded(c, fp, cmd, t)

\* The cache after a command whose device call raised: the except clause logs
\* and raises again.
command_failed(c, fp, cmd, t) == c

\* ------------------------------------------------------ light service calls

\* The keyword arguments of light.turn_on the model draws from.
LightKwargs ==
  { [brightness |-> None, color |-> "none"],
    [brightness |-> Some(128), color |-> "none"],
    [brightness |-> None, color |-> "rgb"],
    [brightness |-> None, color |-> "temp"],
    [brightness |-> None, color |-> "effect"] }

KwargRgb == <<10, 20, 30>>
KwargKelvin == 4000
KwargEffect == "movie"

\* int((float(brightness) / 255.0) * 100.0)
to_device_brightness(b) == (b * 100) \div 255

\* DayBetterLight.available.
available(c, fp) == is_device_online(c, fp)

\* DayBetterLight.is_on: the device object when available, else the entity's
\* cached value.
light_is_on(c, dv, lt, fp) ==
  IF available(c, fp) THEN dv[fp].on ELSE lt[fp].cached_on

\* async_turn_on from the statement after `stage` up to its next awaited
\* coordinator command (stage 4: none is left).
light_next_command(stage, kwargs, is_on) ==
  IF stage < 1 /\ kwargs.brightness # None
  THEN [stage |-> 1,
        command |-> [name |-> "set_brightness",
                     arg |-> Some(to_device_brightness(kwargs.brightness[1]))]]
  ELSE IF stage < 2 /\ kwargs.color # "none"
  THEN [stage |-> 2,
        command |->
          CASE kwargs.color = "rgb" -> [name |-> "set_rgb_color", arg |-> Some(KwargRgb)]
            [] kwargs.color = "temp" -> [name |-> "set_temperature", arg |-> Some(KwargKelvin)]
            [] kwargs.color = "effect" -> [name |-> "set_scene", arg |-> Some(KwargEffect)]]
  ELSE IF stage < 3 /\ (~is_on \/ kwargs = NoKwargs)
  THEN [stage |-> 3, command |-> [name |-> "turn_on", arg |-> None]]
  ELSE [stage |-> 4, command |-> NoCommand]

\* The entity's own cache writes at the end of async_turn_on.
light_turned_on(entity, kwargs) ==
  [cached_on |-> TRUE,
   cached_brightness |->
     IF kwargs.brightness # None
     THEN to_device_brightness(kwargs.brightness[1])
     ELSE entity.cached_brightness,
   cached_rgb_color |->
     CASE kwargs.color = "rgb" -> Some(KwargRgb)
       [] kwargs.color = "temp" -> None
       [] OTHER -> entity.cached_rgb_color,
   cached_temperature_color |->
     CASE kwargs.color = "temp" -> Some(KwargKelvin)
       [] kwargs.color = "rgb" -> None
       [] OTHER -> entity.cached_temperature_color]

\* int((brightness / 100.0) * 255.0)
to_hass_brightness(b) == (b * 255) \div 100

\* DayBetterLight.brightness.
light_brightness(c, dv, lt, fp) ==
  IF available(c, fp)
  THEN to_hass_brightness(dv[fp].brightness)
  ELSE to_hass_brightness(lt[fp].cached_brightness)

\* DayBetterLight.color_temp_kelvin.
light_color_temp_kelvin(c, dv, lt, fp) ==
  IF available(c, fp) THEN dv[fp].temperature_color ELSE lt[fp].cached_temperature_color

\* DayBetterLight.rgb_color.
light_rgb_color(c, dv, lt, fp) ==
  IF available(c, fp) THEN dv[fp].rgb_color ELSE lt[fp].cached_rgb_color

\* The chain of tests of color_mode, over the values it is given.
color_mode_of(temperature, rgb, brightness) ==
  IF temperature # None /\ temperature[1] > 0 THEN "color_temp"
  ELSE IF rgb # None THEN "rgb"
  ELSE IF brightness > 0 THEN "brightness"
  ELSE "onoff"

\* DayBetterLight.color_mode of an entity with no fixed colour mode (the light
\* of the model supports rgb and colour temperature): the cached values decide.
light_color_mode(c, dv, lt, fp) ==
  color_mode_of(lt[fp].cached_temperature_color, lt[fp].cached_rgb_color,
                lt[fp].cached_brightness)

\* The entity's own cache write at the end of async_turn_off.
light_turned_off(entity) == [entity EXCEPT !.cached_on = FALSE]

\* The transport call of a coordinator command: `await device.<name>(...)`.
device_call(fp, cmd) == << [op |-> cmd.name, target |-> fp, arg |-> cmd.arg] >>

\* The service call runs from `stage` to its next await or to its end.
run_call(kind, fp, kwargs, stage, c, lt) ==
  LET nxt == IF kind = "light_turn_on"
             THEN light_next_command(stage, kwargs, light_is_on(c, device, lt, fp))
             ELSE IF stage < 3
                  THEN [stage |-> 3, command |-> [name |-> "turn_off", arg |-> None]]
                  ELSE [stage |-> 4, command |-> NoCommand]
  IN IF nxt.command # NoCommand
     THEN /\ call' = [kind |-> kind, fingerprint |-> fp, kwargs |-> kwargs,
                      stage |-> nxt.stage, command |-> nxt.command]
          /\ transport' = device_call(fp, nxt.command)
          /\ light' = lt
     ELSE /\ call' = NoCall
          /\ transport' = <<>>
          /\ light' = [lt EXCEPT ![fp] =
                         IF kind = "light_turn_on"
                         THEN light_turned_on(@, kwargs)
                         ELSE light_turned_off(@)]

\* DayBetterLight.async_turn_on, up to its first await.
light_async_turn_on(fp, kwargs) ==
  /\ call = NoCall
  /\ fp \in DOMAIN light
  /\ Count
  /\ notified' = <<>>
  /\ IF available(device_state_cache, fp)
     THEN /\ run_call("light_turn_on", fp, kwargs, 0, device_state_cache, light)
          /\ outcome' = [op |-> "async_turn_on", fingerprint |-> fp,
                         result |-> "ok", seen |-> None]
     ELSE /\ outcome' = [op |-> "async_turn_on", fingerprint |-> fp,
                         result |-> "rejected", seen |-> None]
          /\ transport' = <<>>
          /\ UNCHANGED << call, light >>
  /\ UNCHANGED << now, device_state_cache, device_last_response, response_order,
                  device_entity_callbacks, known_devices, discovery_callback, discovery_handlers,
                  device, update_callback >>

\* DayBetterLight.async_turn_off, up to its await.
light_async_turn_off(fp) ==
  /\ call = NoCall
  /\ fp \in DOMAIN light
  /\ Count
  /\ notified' = <<>>
  /\ IF available(device_state_cache, fp)
     THEN /\ run_call("light_turn_off", fp, NoKwargs, 0, device_state_cache, light)
          /\ outcome' = [op |-> "async_turn_off", fingerprint |-> fp,
                         result |-> "ok", seen |-> None]
     ELSE /\ outcome' = [op |-> "async_turn_off", fingerprint |-> fp,
                         result |-> "rejected", seen |-> None]
          /\ transport' = <<>>
          /\ UNCHANGED << call, light >>
  /\ UNCHANGED << now, device_state_cache, device_last_response, response_order,
                  device_entity_callbacks, known_devices, discovery_callback, discovery_handlers,
                  device, update_callback >>

\* The awaited device call of the coordinator command in flight returns: the
\* command writes the cache and notifies, and the service call goes on.
CommandReturns ==
  /\ Count
  /\ call # NoCall
  /\ LET fp == call.fingerprint
         cache1 == command_succeeded(device_state_cache, fp, call.command, now)
         calls == command_notifies(device_state_cache, device_entity_callbacks, fp)
         light1 == lights_notified(light, cache1, calls)
     IN /\ device_state_cache' = cache1
        /\ notified' = calls
        /\ outcome' = [op |-> call.command.name, fingerprint |-> fp,
                       result |-> "ok", seen |-> None]
        /\ run_call(call.kind, fp, call.kwargs, call.stage, cache1, light1)
  /\ UNCHANGED << now, device_last_response, response_order,
                  device_entity_callbacks, known_devices, discovery_callback, discovery_handlers,
                  device, update_callback >>

\* The awaited device call raises: the coordinator command raises to the
\* entity, whose except clause ends the service call.
CommandRaises ==
  /\ Count
  /\ call # NoCall
  /\ device_state_cache' =
       command_failed(device_state_cache, call.fingerprint, call.command, now)
  /\ notified' = <<>>
  /\ transport' = <<>>
  /\ outcome' = [op |-> call.command.name, fingerprint |-> call.fingerprint,
                 result |-> "raised", seen |-> None]
  /\ call' = NoCall
  /\ UNCHANGED << now, device_last_response, response_order,
                  device_entity_callbacks, known_devices, discovery_callback, discovery_handlers,
                  device, update_callback, light >>


\* -------------------------------------------------------------------- sweep

\* The coordinator's controllers, one per source address.
Controllers == <<"ip1", "ip2">>

\* The comparison with >= in place of >.
response_expired_inclusive(t, last_response) == t - last_response >= OfflineLiteral

\* The comparison against the constant of const.py.
response_expired_by_constant(t, last_response) ==
  t - last_response > DEVICE_OFFLINE_THRESHOLD

\* `current_time - last_response > 90`
response_expired(t, last_response) == t - last_response > OfflineLiteral

\* marks_offline without the test of the online flag.
marks_offline_ignoring_online(c, fp, t, last_response) ==
  /\ response_expired(t, last_response)
  /\ fp \in DOMAIN c

\* The three nested conditions of the loop body: the response expired, the
\* fingerprint has a snapshot, and the snapshot is online.
marks_offline(c, fp, t, last_response) ==
  /\ response_expired(t, last_response)
  /\ fp \in DOMAIN c
  /\ c[fp].online

\* mark_offline deleting the snapshot.
mark_offline_evicting(c, fp, t) == [x \in (DOMAIN c) \ {fp} |-> c[x]]

\* The two writes that mark the snapshot of fp offline.
mark_offline(c, fp, t) ==
  [c EXCEPT ![fp].online = FALSE, ![fp].last_updated = t]

\* The loop of _async_update_data over the keys of _device_last_response: the
\* cache it leaves, the invocations it makes, in order, and with each
\* invocation the fingerprints the loop has yet to reach when it is made.
RECURSIVE sweep(_, _, _, _, _)
sweep(order, responses, c, cbs, t) ==
  IF order = <<>>
  THEN [cache |-> c, notified |-> <<>>, unevaluated |-> <<>>]
  ELSE LET fp == Head(order)
           demote == marks_offline(c, fp, t, responses[fp])
           c1 == IF demote THEN mark_offline(c, fp, t) ELSE c
           calls == IF demote THEN notify_device_entities(cbs, fp) ELSE <<>>
           rest == sweep(Tail(order), responses, c1, cbs, t)
       IN [cache |-> rest.cache,
           notified |-> calls \o rest.notified,
           unevaluated |-> [i \in 1..Len(calls) |-> Tail(order)]
                             \o rest.unevaluated]

\* controller.send_update_message() on the first n controllers.
update_messages(n) ==
  [i \in 1..n |-> [op |-> "send_update_message", target |-> Controllers[i], arg |-> None]]

\* The light entities added to hass after the coordinator's listeners ran
\* (_handle_coordinator_update).
lights_refreshed(lt, c, cbs) ==
  [f \in DOMAIN lt |->
     IF InSeq("light", callbacks_of(cbs, f))
     THEN update_state_from_cache(lt[f], c, f)
     ELSE lt[f]]

\* _async_update_data: the periodic tick.
async_update_data ==
  /\ Count
  /\ LET swept == sweep(response_order, device_last_response,
                        device_state_cache, device_entity_callbacks, now)
     IN /\ device_state_cache' = swept.cache
        /\ notified' = swept.notified
        /\ light' = lights_refreshed(light, swept.cache, device_entity_callbacks)
        /\ outcome' = [op |-> "sweep", fingerprint |-> "", result |-> "ok",
                       seen |-> Some(swept.unevaluated)]
  /\ transport' = update_messages(Len(Controllers))
  /\ UNCHANGED << now, device_last_response, response_order,
                  device_entity_callbacks, known_devices, discovery_callback, discovery_handlers,
                  device, update_callback, call >>

\* _async_update_data when send_update_message raises on controller n: the
\* exception leaves the method before the loop.
async_update_data_raises(n, listeners_run) ==
  /\ Count
  /\ transport' = update_messages(n)
  /\ notified' = <<>>
  /\ outcome' = [op |-> "sweep", fingerprint |-> "", result |-> "raised",
                 seen |-> None]
  /\ light' = IF listeners_run
              THEN lights_refreshed(light, device_state_cache, device_entity_callbacks)
              ELSE light
  /\ UNCHANGED << now, device_state_cache, device_last_response, response_order,
                  device_entity_callbacks, known_devices, discovery_callback, discovery_handlers,
                  device, update_callback, call >>

\* start on the first n controllers: controller.start() is awaited, then the
\* controller sends its first status query.
start_calls(n) ==
  [i \in 1..(2 * n) |->
     [op |-> IF i % 2 = 1 THEN "start" ELSE "send_update_message",
      target |-> Controllers[(i + 1) \div 2], arg |-> None]]

\* start hiding the exception of a controller from its caller.
start_outcome_swallowing(raised) == "ok"

\* How start ends: it has no except clause.
start_outcome(raised) == IF raised THEN "raised" ELSE "ok"

\* start, every controller starting.
start ==
  /\ Count
  /\ transport' = start_calls(Len(Controllers))
  /\ notified' = <<>>
  /\ outcome' = [op |-> "start", fingerprint |-> "", result |-> start_outcome(FALSE),
                 seen |-> None]
  /\ UNCHANGED << now, device_state_cache, device_last_response, response_order,
                  device_entity_callbacks, known_devices, discovery_callback, discovery_handlers,
                  device, update_callback, light, call >>

\* start when controller.start() raises on controller n: the controllers after
\* it are not started.
start_raises(n) ==
  /\ Count
  /\ transport' = Append(start_calls(n - 1),
                         [op |-> "start", target |-> Controllers[n], arg |-> None])
  /\ notified' = <<>>
  /\ outcome' = [op |-> "start", fingerprint |-> "", result |-> start_outcome(TRUE),
                 seen |-> None]
  /\ UNCHANGED << now, device_state_cache, device_last_response, response_order,
                  device_entity_callbacks, known_devices, discovery_callback, discovery_handlers,
                  device, update_callback, light, call >>

\* cleanup stopping the first controller only.
cleanup_calls_first(n) ==
  << [op |-> "cleanup", target |-> Controllers[1], arg |-> None] >>

\* controller.cleanup() on the first n controllers.
cleanup_calls(n) ==
  [i \in 1..n |-> [op |-> "cleanup", target |-> Controllers[i], arg |-> None]]

\* cleanup: every controller is told to stop; a command whose device call is
\* awaited stays suspended.
cleanup ==
  /\ Count
  /\ transport' = cleanup_calls(Len(Controllers))
  /\ notified' = <<>>
  /\ outcome' = [op |-> "cleanup", fingerprint |-> "", result |-> "ok", seen |-> None]
  /\ UNCHANGED << now, device_state_cache, device_last_response, response_order,
                  device_entity_callbacks, known_devices, discovery_callback, discovery_handlers,
                  device, update_callback, light, call >>

\* ------------------------------------------------------------ specification

Next ==
  \/ \E delay \in Delays : Tick(delay)
  \/ \E platform \in {"light", "switch"} : set_discovery_callback(platform)
  \/ \E fp \in Fingerprints, is_new \in BOOLEAN :
       \E dev \in DeviceStates(fp) : Discovery(fp, dev, is_new)
  \/ \E fp \in Fingerprints, hass_raises \in BOOLEAN :
       \E dev \in DeviceStates(fp) : StatusPush(fp, dev, hass_raises)
  \/ \E fp \in Fingerprints, cb \in Callbacks : register_device_entity(fp, cb)
  \/ \E fp \in Fingerprints, cb \in Callbacks : unregister_device_entity(fp, cb)
  \/ \E fp \in Fingerprints, kwargs \in LightKwargs : light_async_turn_on(fp, kwargs)
  \/ \E fp \in Fingerprints : light_async_turn_off(fp)
  \/ CommandReturns
  \/ CommandRaises
  \/ async_update_data
  \/ cleanup
  \/ start
  \/ \E n \in 1..Len(Controllers) : start_raises(n)
  \/ \E n \in 1..Len(Controllers), listeners_run \in BOOLEAN :
       async_update_data_raises(n, listeners_run)

Spec == Init /\ [][Next]_vars


\* ------------------------------------------------------------------ claims

CommandNames ==
  {"turn_on", "turn_off", "set_brightness", "set_rgb_color", "set_temperature",
   "set_scene"}

\* The callbacks a step invoked for fp, in order.
InvokedFor(calls, fp) ==
  LET mine(x) == x.fingerprint = fp
      sel == SelectSeq(calls, mine)
  IN [i \in 1..Len(sel) |-> sel[i].callback]

\* How often x occurs in s.
Times(x, s) == Cardinality({i \in 1..Len(s) : s[i] = x})

\* A step invoked each callback registered for fp in cbs once, and no other.
EachOnce(calls, cbs, fp) ==
  \A cb \in Callbacks :
    Times(cb, InvokedFor(calls, fp)) = IF InSeq(cb, callbacks_of(cbs, fp)) THEN 1 ELSE 0

\* C1: no snapshot of the cache has rgb_color and temperature_color both set.
C1_ColorsExclusive ==
  \A fp \in DOMAIN device_state_cache :
    ~ (/\ device_state_cache[fp].rgb_color # None
       /\ device_state_cache[fp].temperature_color # None)

\* C2: a sweep leaves every fingerprint whose last response is older than the
\* sweep's threshold offline; it invokes each of the fingerprint's subscribers
\* once when the snapshot was online before the sweep, and none of them when it
\* was offline already.
C2_SweepNotifiesOnce ==
  [][ async_update_data =>
        \A fp \in DOMAIN device_last_response :
          response_expired(now, device_last_response[fp]) =>
            /\ fp \in DOMAIN device_state_cache'
            /\ ~ device_state_cache'[fp].online
            /\ IF device_state_cache[fp].online
               THEN EachOnce(notified', device_entity_callbacks, fp)
               ELSE InvokedFor(notified', fp) = <<>> ]_vars

\* C2 witness: a sweep has just marked a device offline and invoked its one
\* subscriber once.
C2_Witness ==
  /\ outcome.op = "sweep"
  /\ outcome.result = "ok"
  /\ \E fp \in DOMAIN device_state_cache :
       /\ ~ device_state_cache[fp].online
       /\ device_state_cache[fp].last_updated = now
       /\ callbacks_of(device_entity_callbacks, fp) # <<>>
       /\ InvokedFor(notified, fp) = callbacks_of(device_entity_callbacks, fp)

\* C3: a status update or discovery announcement of a device whose snapshot is
\* offline leaves the snapshot online.
C3_MessageBringsOnline ==
  [][ /\ outcome'.op \in {"status", "discovery"}
      /\ outcome'.fingerprint \in DOMAIN device_state_cache
      /\ ~ device_state_cache[outcome'.fingerprint].online
      => device_state_cache'[outcome'.fingerprint].online ]_vars

\* C4: a coordinator command whose device call raises raises to its caller,
\* leaves the cache as it was and invokes no subscriber.
C4_FailedCommand ==
  [][ CommandRaises =>
        /\ outcome'.result = "raised"
        /\ outcome'.op \in CommandNames
        /\ device_state_cache' = device_state_cache
        /\ notified' = <<>> ]_vars

\* C4 witness: a command on a device with a snapshot has just raised.
C4_Witness ==
  /\ outcome.result = "raised"
  /\ outcome.op \in CommandNames
  /\ outcome.fingerprint \in DOMAIN device_state_cache

\* The snapshot holds the value a command set.
Holds(snap, cmd) ==
  CASE cmd.name = "turn_on" -> snap.on = TRUE
    [] cmd.name = "turn_off" -> snap.on = FALSE
    [] cmd.name = "set_brightness" -> snap.brightness = cmd.arg[1]
    [] cmd.name = "set_rgb_color" -> snap.rgb_color = cmd.arg
    [] cmd.name = "set_temperature" -> snap.temperature_color = cmd.arg
    [] cmd.name = "set_scene" -> snap.scene = cmd.arg

C6_OfflineCommandInert ==
  [][ \A fp \in DOMAIN device_state_cache :
        ~ device_state_cache[fp].online =>
          /\ \A i \in 1..Len(transport') : transport'[i].target # fp
          /\ (outcome'.op \in CommandNames /\ outcome'.fingerprint = fp)
               => device_state_cache'[fp] = device_state_cache[fp] ]_vars

\* s without the occurrences of x.
Without(s, x) == LET keep(y) == y # x IN SelectSeq(s, keep)

\* C7: unregistering removes the callback and only it; unregistering a callback
\* that is not registered changes nothing; a callback enters the list of a
\* fingerprint only by its registration, and registering it again leaves it in
\* the list once; a step invokes a callback for a fingerprint at most once, and
\* only when it is in the fingerprint's list.
C7_RegistryAlgebra ==
  [][ \A fp \in Fingerprints, cb \in Callbacks :
        LET before == callbacks_of(device_entity_callbacks, fp)
            after == callbacks_of(device_entity_callbacks', fp)
            mine == outcome'.fingerprint = fp /\ outcome'.seen = Some(cb)
        IN /\ (outcome'.op = "unregister" /\ mine) => after = Without(before, cb)
           /\ (outcome'.op = "unregister" /\ mine /\ ~ InSeq(cb, before))
                => device_entity_callbacks' = device_entity_callbacks
           /\ (~ InSeq(cb, before) /\ InSeq(cb, after))
                => (outcome'.op = "register" /\ mine)
           /\ (outcome'.op = "register" /\ mine) => Times(cb, after) = 1
           /\ Times(cb, InvokedFor(notified', fp))
                = (IF InvokedFor(notified', fp) # <<>> /\ InSeq(cb, after)
                   THEN 1 ELSE 0) ]_vars

\* C7 witness of a notification: the re-announced device has one subscriber in
\* its list, and the step invoked it and no other callback.
C7_Witness ==
  /\ outcome.op = "discovery"
  /\ \E fp \in Fingerprints :
       /\ callbacks_of(device_entity_callbacks, fp) = <<"light">>
       /\ InvokedFor(notified, fp) = <<"light">>

\* C7 witness of the no-ops: a second registration, or an unregistration of a
\* callback that is not registered, has just run.
C7_NoopWitness ==
  /\ outcome.op \in {"register", "unregister"}
  /\ outcome.result = "noop"

\* C8: a step that notifies a fingerprint invokes the callbacks of its list,
\* all of them and in the order of the list, also after one that raises; a new
\* registration goes to the end of the list; the command or the message
\* handler that notified ends without an exception.
C8_NotifyAllInOrder ==
  [][ /\ \A fp \in Fingerprints :
           InvokedFor(notified', fp)
             \in {<<>>, callbacks_of(device_entity_callbacks, fp)}
      /\ CommandReturns =>
           /\ InvokedFor(notified', call.fingerprint)
                = callbacks_of(device_entity_callbacks, call.fingerprint)
           /\ outcome'.result = "ok"
      /\ (outcome'.op = "discovery" /\ outcome'.seen = None) =>
           /\ InvokedFor(notified', outcome'.fingerprint)
                = callbacks_of(device_entity_callbacks, outcome'.fingerprint)
           /\ outcome'.result = "ok"
      /\ (outcome'.op = "register" /\ outcome'.result = "ok") =>
           callbacks_of(device_entity_callbacks', outcome'.fingerprint)
             = Append(callbacks_of(device_entity_callbacks, outcome'.fingerprint),
                      outcome'.seen[1]) ]_vars

\* C8 witness: the first of two subscribers raised, the second was invoked
\* after it, and the step that notified ended without an exception.
C8_Witness ==
  /\ outcome.result = "ok"
  /\ Len(notified) = 2
  /\ notified[1].raised
  /\ ~ notified[2].raised
  /\ notified[1].fingerprint = notified[2].fingerprint
  /\ callbacks_of(device_entity_callbacks, notified[1].fingerprint)
       = << notified[1].callback, notified[2].callback >>

\* C9: what the discovery callback finds when it is invoked for a first
\* sighting: the fingerprint among the known devices, and a snapshot of it that
\* is online and holds the announced attributes.
C9_DiscoveryCallbackSees ==
  (outcome.op = "discovery" /\ outcome.seen # None) =>
    LET fp == outcome.fingerprint
        seen == outcome.seen[1]
    IN /\ seen.known
       /\ seen.snapshot # None
       /\ seen.snapshot[1].online
       /\ seen.snapshot[1].sku = Sku[fp]
       /\ \A k \in {"on", "brightness", "rgb_color", "temperature_color", "scene"} :
            seen.snapshot[1][k] = device[fp][k]

\* C9 witness: the discovery callback has just been invoked for a device that
\* announced itself on.
C9_Witness ==
  /\ outcome.op = "discovery"
  /\ outcome.seen # None
  /\ device[outcome.fingerprint].on

\* C10: a status push of a discovered device leaves the time of the push as
\* the device's last response, the pushed attributes in its snapshot, and has
\* invoked its subscribers.
C10_StatusReachesCoordinator ==
  (outcome.op = "status" /\ outcome.fingerprint \in known_devices) =>
    LET fp == outcome.fingerprint
    IN /\ device_last_response[fp] = now
       /\ device_state_cache[fp].online
       /\ \A k \in {"on", "brightness", "rgb_color", "temperature_color", "scene"} :
            device_state_cache[fp][k] = device[fp][k]
       /\ InvokedFor(notified, fp) = callbacks_of(device_entity_callbacks, fp)

\* C11: a command whose device call returned leaves the time of its return as
\* the device's last response, and a sweep leaves online every online device
\* whose snapshot was written, by a message or by a command, within the
\* sweep's threshold.
C11_CommandRefreshesLastSeen ==
  [][ /\ CommandReturns => device_last_response'[call.fingerprint] = now
      /\ async_update_data =>
           \A fp \in DOMAIN device_state_cache :
             (/\ device_state_cache[fp].online
              /\ now - device_state_cache[fp].last_updated <= OfflineLiteral)
               => device_state_cache'[fp].online ]_vars

\* The attributes of a snapshot that messages and commands write.
Attributes == {"on", "brightness", "rgb_color", "temperature_color", "scene", "sku"}

\* Two snapshots agree on the attributes of ks.
SameOn(a, b, ks) == \A k \in ks : a[k] = b[k]

\* C12: a fingerprint that has a snapshot keeps one, get_cached_device_state
\* returns it, and its attributes change only in a step that handles a message
\* of the device or in which a command on the device returned.
C12_SnapshotKept ==
  [][ \A fp \in DOMAIN device_state_cache :
        /\ fp \in DOMAIN device_state_cache'
        /\ get_cached_device_state(device_state_cache', fp)
             = Some(device_state_cache'[fp])
        /\ ~ SameOn(device_state_cache'[fp], device_state_cache[fp], Attributes)
             => /\ outcome'.fingerprint = fp
                /\ \/ outcome'.op \in {"discovery", "status"}
                   \/ outcome'.op \in CommandNames /\ outcome'.result = "ok" ]_vars

\* C12 witness: a sweep has just marked offline a device whose snapshot keeps
\* the attributes its last message wrote.
C12_Witness ==
  /\ outcome.op = "sweep"
  /\ \E fp \in DOMAIN device_state_cache :
       /\ ~ device_state_cache[fp].online
       /\ device_state_cache[fp].on
       /\ device_state_cache[fp].brightness = 50
       /\ SameOn(device_state_cache[fp], device[fp], Attributes \ {"sku"})

\* C13: a sweep changes the snapshot of a device it marks offline in the
\* online flag only, and leaves the snapshot of an offline device as it was.
C13_MarkOfflineFrame ==
  [][ async_update_data =>
        \A fp \in DOMAIN device_state_cache :
          /\ SameOn(device_state_cache'[fp], device_state_cache[fp],
                    Attributes \cup {"last_updated"})
          /\ ~ device_state_cache[fp].online
               => device_state_cache'[fp] = device_state_cache[fp] ]_vars

\* C14: the online flag of a snapshot goes from true to false only in a sweep,
\* and only when the device's last response is older than the sweep's
\* threshold.
C14_OnlyTheSweepDemotes ==
  [][ \A fp \in DOMAIN device_state_cache :
        (/\ device_state_cache[fp].online
         /\ fp \in DOMAIN device_state_cache'
         /\ ~ device_state_cache'[fp].online)
          => /\ outcome'.op = "sweep"
             /\ outcome'.result = "ok"
             /\ now - device_last_response[fp] > OfflineLiteral ]_vars

\* C14 witness: a command on an online device has just raised and the device
\* is online still.
C14_Witness ==
  /\ outcome.result = "raised"
  /\ outcome.op \in CommandNames
  /\ is_device_online(device_state_cache, outcome.fingerprint)

\* C14 witness of the demotion: a sweep has just marked offline a device last
\* heard of more than the threshold ago.
C14_SweepWitness ==
  /\ outcome.op = "sweep"
  /\ \E fp \in DOMAIN device_state_cache :
       /\ ~ device_state_cache[fp].online
       /\ device_state_cache[fp].last_updated = now
       /\ now - device_last_response[fp] > OfflineLiteral

\* C15: a completed tick has queried every controller, and each callback the
\* sweep invoked was invoked when the loop had no fingerprint left to reach.
C15_NotifiesAfterTheSweep ==
  (outcome.op = "sweep" /\ outcome.seen # None) =>
    /\ transport = update_messages(Len(Controllers))
    /\ \A i \in 1..Len(outcome.seen[1]) : outcome.seen[1][i] = <<>>

\* C16: a tick does not raise, queries every controller and runs the sweep.
C16_QueryFailureSwallowed ==
  [][ outcome'.op = "sweep" =>
        /\ outcome'.result = "ok"
        /\ transport' = update_messages(Len(Controllers))
        /\ device_state_cache'
             = sweep(response_order, device_last_response, device_state_cache,
                     device_entity_callbacks, now).cache ]_vars

\* C17: after a completed sweep a fingerprint with a snapshot is online
\* exactly when its last response is no older than the sweep's threshold.
C17_OnlineIffRecent ==
  (outcome.op = "sweep" /\ outcome.result = "ok") =>
    \A fp \in DOMAIN device_state_cache :
      is_device_online(device_state_cache, fp)
        <=> (now - device_last_response[fp] <= OfflineLiteral)

\* C17 witness: a sweep has just run over a device heard of within the
\* threshold, which is online, and a device heard of longer ago, which is
\* offline.
C17_Witness ==
  /\ outcome.op = "sweep"
  /\ outcome.result = "ok"
  /\ \E f, g \in DOMAIN device_state_cache :
       /\ is_device_online(device_state_cache, f)
       /\ now - device_last_response[f] <= OfflineLiteral
       /\ ~ is_device_online(device_state_cache, g)
       /\ now - device_last_response[g] > OfflineLiteral

Written(cmd) ==
  {"last_updated"} \cup
  (CASE cmd.name \in {"turn_on", "turn_off"} -> {"on"}
     [] cmd.name = "set_brightness" -> {"brightness"}
     [] cmd.name \in {"set_rgb_color", "set_temperature"} ->
          {"rgb_color", "temperature_color"}
     [] cmd.name = "set_scene" -> {"scene"})

\* The snapshot of fp after a command that returned: the commanded value, and
\* in every key the command does not assign the value the snapshot had when
\* the device call returned.
AppliedTo(before, after, cmd) ==
  /\ Holds(after, cmd)
  /\ SameOn(after, before, (Attributes \cup {"online"}) \ Written(cmd))

\* C19: each mutation applies to the snapshot the mutation completed before it
\* left: a command that returns keeps what messages and sweeps wrote while its
\* device call was awaited, a message handled meanwhile stores the attributes
\* of the device whole, and a sweep changes no attribute; no step writes the
\* snapshot of another fingerprint.
C19_NoLostUpdate ==
  [][ /\ CommandReturns =>
           /\ AppliedTo(device_state_cache[call.fingerprint],
                        device_state_cache'[call.fingerprint], call.command)
           /\ \A fp \in DOMAIN device_state_cache :
                fp # call.fingerprint
                  => device_state_cache'[fp] = device_state_cache[fp]
      /\ (outcome'.op \in {"discovery", "status"}
            /\ device_state_cache' # device_state_cache) =>
           /\ SameOn(device_state_cache'[outcome'.fingerprint],
                     device'[outcome'.fingerprint], Attributes \ {"sku"})
           /\ device_state_cache'[outcome'.fingerprint].online
           /\ call' = call
           /\ \A fp \in DOMAIN device_state_cache :
                fp # outcome'.fingerprint
                  => device_state_cache'[fp] = device_state_cache[fp]
      /\ async_update_data =>
           /\ call' = call
           /\ \A fp \in DOMAIN device_state_cache :
                SameOn(device_state_cache'[fp], device_state_cache[fp], Attributes)
    ]_vars

\* C19 witness: a command has just returned on a device that a sweep marked
\* offline while the device call was awaited; the snapshot holds the commanded
\* value and is offline still.
C19_Witness ==
  /\ outcome.op \in CommandNames
  /\ outcome.result = "ok"
  /\ outcome.fingerprint \in DOMAIN device_state_cache
  /\ ~ device_state_cache[outcome.fingerprint].online
  /\ device_state_cache[outcome.fingerprint].last_updated = now
  /\ device_state_cache[outcome.fingerprint].rgb_color = Some(KwargRgb)

\* C19 witness of a message: an announcement of a device has just been handled
\* while a command on the device is awaiting its device call.
C19_MessageWitness ==
  /\ outcome.op = "discovery"
  /\ call # NoCall
  /\ call.fingerprint = outcome.fingerprint

\* C20: cleanup tells every controller to stop and leaves the cache and the
\* command in flight as they were; the command then returns, and the snapshot
\* holds the commanded value, or raises to its caller, and the snapshot is as
\* it was.
C20_CleanupSafe ==
  [][ /\ cleanup =>
           /\ \A i \in 1..Len(Controllers) :
                InSeq([op |-> "cleanup", target |-> Controllers[i], arg |-> None],
                      transport')
           /\ device_state_cache' = device_state_cache
           /\ call' = call
      /\ (call # NoCall /\ outcome'.op \in CommandNames) =>
           \/ /\ outcome'.result = "ok"
              /\ AppliedTo(device_state_cache[call.fingerprint],
                           device_state_cache'[call.fingerprint], call.command)
           \/ /\ outcome'.result = "raised"
              /\ device_state_cache' = device_state_cache ]_vars

\* C20 witness: cleanup has just run while a command awaits its device call.
C20_Witness ==
  /\ outcome.op = "cleanup"
  /\ call # NoCall
  /\ Len(transport) = Len(Controllers)

\* C21: after set_rgb_color returned the snapshot has the given rgb_color and
\* no temperature_color, and after set_temperature returned it has the given
\* temperature_color and no rgb_color, whatever the snapshot held before.
C21_ColorCommandsExclusive ==
  [][ CommandReturns =>
        LET snap == device_state_cache'[call.fingerprint]
        IN /\ call.command.name = "set_rgb_color"
                => (snap.rgb_color = call.command.arg /\ snap.temperature_color = None)
           /\ call.command.name = "set_temperature"
                => (snap.temperature_color = call.command.arg /\ snap.rgb_color = None)
    ]_vars

\* C21 witness: set_temperature has just returned on a device whose snapshot
\* held an rgb_color; the snapshot has the temperature and no rgb_color.
C21_Witness ==
  /\ outcome.op = "set_temperature"
  /\ outcome.result = "ok"
  /\ device[outcome.fingerprint].rgb_color # None
  /\ device_state_cache[outcome.fingerprint].temperature_color = Some(KwargKelvin)
  /\ device_state_cache[outcome.fingerprint].rgb_color = None

\* C22: each read accessor of a light entity gives what the device object
\* holds when the device is online and what the entity cached when it is
\* offline.
C22_AccessorsSymmetric ==
  \A fp \in DOMAIN light :
    LET c == device_state_cache
        live == device[fp]
        kept == light[fp]
    IN IF available(c, fp)
       THEN /\ light_is_on(c, device, light, fp) = live.on
            /\ light_brightness(c, device, light, fp) = to_hass_brightness(live.brightness)
            /\ light_rgb_color(c, device, light, fp) = live.rgb_color
            /\ light_color_temp_kelvin(c, device, light, fp) = live.temperature_color
            /\ light_color_mode(c, device, light, fp)
                 = color_mode_of(live.temperature_color, live.rgb_color, live.brightness)
       ELSE /\ light_is_on(c, device, light, fp) = kept.cached_on
            /\ light_brightness(c, device, light, fp)
                 = to_hass_brightness(kept.cached_brightness)
            /\ light_rgb_color(c, device, light, fp) = kept.cached_rgb_color
            /\ light_color_temp_kelvin(c, device, light, fp)
                 = kept.cached_temperature_color
            /\ light_color_mode(c, device, light, fp)
                 = color_mode_of(kept.cached_temperature_color, kept.cached_rgb_color,
                                 kept.cached_brightness)

\* C23: a message handled by the coordinator for a fingerprint that has a
\* snapshot leaves the message's on in the snapshot and a last_updated greater
\* than the snapshot had.
C23_LastUpdatedIncreases ==
  [][ \A fp \in DOMAIN device_state_cache :
        (/\ outcome'.fingerprint = fp
         /\ \/ outcome'.op = "discovery"
            \/ outcome'.op = "status" /\ slot_of(fp) = "coordinator")
          => /\ device_state_cache'[fp].on = device'[fp].on
             /\ device_state_cache'[fp].last_updated
                  > device_state_cache[fp].last_updated ]_vars

\* C24: start that raises nowhere has started each controller and sent one
\* status query on it, in turn; start that did not get that far raised to its
\* caller.
C24_StartPropagates ==
  (outcome.op = "start") =>
    IF outcome.result = "ok"
    THEN /\ Len(transport) = 2 * Len(Controllers)
         /\ \A i \in 1..Len(Controllers) :
              /\ transport[2 * i - 1]
                   = [op |-> "start", target |-> Controllers[i], arg |-> None]
              /\ transport[2 * i]
                   = [op |-> "send_update_message", target |-> Controllers[i],
                      arg |-> None]
    ELSE /\ outcome.result = "raised"
         /\ Len(transport) < 2 * Len(Controllers)
         /\ transport[Len(transport)].op = "start"

\* C24 witness: start has just raised because the second controller failed to
\* start, after the first was started and queried.
C24_Witness ==
  /\ outcome.op = "start"
  /\ outcome.result = "raised"
  /\ Len(transport) = 3

\* C25: a step that takes the online flag of a snapshot from false to true
\* invokes the subscribers of the fingerprint.
C25_OnlineEdgeNotifies ==
  [][ \A fp \in DOMAIN device_state_cache :
        (~ device_state_cache[fp].online /\ device_state_cache'[fp].online)
          => InvokedFor(notified', fp) = callbacks_of(device_entity_callbacks, fp)
    ]_vars

\* The fingerprints with a last response are those with a snapshot, the known
\* devices are among them, and every snapshot has its online flag.
RecordsAgree(responses, c, known) ==
  /\ DOMAIN responses = DOMAIN c
  /\ known \subseteq DOMAIN c
  /\ \A fp \in DOMAIN c : "online" \in DOMAIN c[fp] /\ c[fp].online \in BOOLEAN

\* C26: the last responses, the snapshots and the known devices agree in every
\* state, and no step takes a fingerprint out of any of the three.
C26_RecordsAgreeAndGrow ==
  /\ RecordsAgree(device_last_response, device_state_cache, known_devices)
  /\ [][ /\ RecordsAgree(device_last_response', device_state_cache', known_devices')
         /\ DOMAIN device_last_response \subseteq DOMAIN device_last_response'
         /\ DOMAIN device_state_cache \subseteq DOMAIN device_state_cache'
         /\ known_devices \subseteq known_devices' ]_vars

\* C26 witness: both devices are known and have a last response and a
\* snapshot, and a sweep has marked one of them offline.
C26_Witness ==
  /\ known_devices = Fingerprints
  /\ DOMAIN device_state_cache = Fingerprints
  /\ DOMAIN device_last_response = Fingerprints
  /\ \E fp \in Fingerprints : ~ device_state_cache[fp].online

\* The discovery handlers the last step invoked.
handlers_invoked ==
  IF outcome.op = "discovery" /\ outcome.seen # None
  THEN {outcome.seen[1].handler}
  ELSE {}

\* C29: the first sighting of a device invokes the handler of every platform
\* that passed one to set_discovery_callback.
C29_EveryHandlerInvoked ==
  (outcome.op = "discovery" /\ outcome.seen # None)
    => discovery_handlers \subseteq handlers_invoked


\* ------------------------------------------- the commands, called directly

\* Number of commands of a run of CommandSpec.
MaxCommands == 2

\* The time of the sweep that CommandInit has behind it.
SweptAt == OfflineLiteral + 1

\* The commands of the coordinator with the arguments a caller hands them.
Commands ==
  { [name |-> "turn_on", arg |-> None],
    [name |-> "turn_off", arg |-> None],
    [name |-> "set_brightness", arg |-> Some(50)],
    [name |-> "set_rgb_color", arg |-> Some(KwargRgb)],
    [name |-> "set_temperature", arg |-> Some(KwargKelvin)],
    [name |-> "set_scene", arg |-> Some(KwargEffect)] }

\* The coordinator some time after setup. The controller holds a device object
\* for every device; the devices of `seen` were announced at time 0 after
\* set_discovery_callback wired the coordinator and have a snapshot, the others
\* were found by the controller before that and have none; a sweep at SweptAt
\* marked the devices of `offline`; a subscriber may be registered.
CommandInit ==
  \E seen \in SUBSET Fingerprints :
    \E offline \in SUBSET seen, subscribed \in BOOLEAN :
      \E dev \in [Fingerprints -> UNION {DeviceStates(f) : f \in Fingerprints}],
         order \in [1..Cardinality(seen) -> seen] :
        /\ \A f \in Fingerprints : dev[f] \in DeviceStates(f)
        /\ \A f \in seen : \E i \in DOMAIN order : order[i] = f
        /\ now = SweptAt
        /\ device_state_cache =
             [f \in seen |->
                LET snap == update_device_state_cache(EmptyDict, f, dev[f], 0)
                IN IF f \in offline
                   THEN mark_offline(snap, f, SweptAt)[f]
                   ELSE snap[f]]
        /\ device_last_response = [f \in seen |-> 0]
        /\ response_order = order
        /\ device_entity_callbacks =
             IF subscribed THEN [f \in Fingerprints |-> <<"cb">>] ELSE EmptyDict
        /\ known_devices = seen
        /\ discovery_callback = Some("light")
        /\ discovery_handlers = {"light"}
        /\ device = dev
        /\ update_callback = [f \in seen |-> "coordinator"]
        /\ light = EmptyDict
        /\ call = NoCall
        /\ notified = <<>>
        /\ transport = <<>>
        /\ outcome = Quiet
        /\ steps = 0

\* turn_on .. set_scene called with the device object of fp, the awaited device
\* call returning: the cache write under `if fingerprint in`, the notification.
coordinator_command(fp, cmd) ==
  /\ steps < MaxCommands
  /\ steps' = steps + 1
  /\ LET cache1 == command_succeeded(device_state_cache, fp, cmd, now)
         calls == command_notifies(device_state_cache, device_entity_callbacks, fp)
     IN /\ device_state_cache' = cache1
        /\ notified' = calls
        /\ light' = lights_notified(light, cache1, calls)
  /\ transport' = device_call(fp, cmd)
  /\ outcome' = [op |-> cmd.name, fingerprint |-> fp, result |-> "ok", seen |-> None]
  /\ UNCHANGED << now, device_last_response, response_order,
                  device_entity_callbacks, known_devices, discovery_callback,
                  discovery_handlers, device, update_callback, call >>

\* The same with the awaited device call raising: logged and raised again.
coordinator_command_raises(fp, cmd) ==
  /\ steps < MaxCommands
  /\ steps' = steps + 1
  /\ device_state_cache' = command_failed(device_state_cache, fp, cmd, now)
  /\ notified' = <<>>
  /\ transport' = device_call(fp, cmd)
  /\ outcome' = [op |-> cmd.name, fingerprint |-> fp, result |-> "raised",
                 seen |-> None]
  /\ UNCHANGED << now, device_last_response, response_order,
                  device_entity_callbacks, known_devices, discovery_callback,
                  discovery_handlers, device, update_callback, light, call >>

CommandNext ==
  \E fp \in Fingerprints, cmd \in Commands :
    \/ coordinator_command(fp, cmd)
    \/ coordinator_command_raises(fp, cmd)

CommandSpec == CommandInit /\ [][CommandNext]_vars

\* C27: a command that returned for fp leaves every snapshot of another
\* fingerprint, the set of fingerprints that have a snapshot, the last
\* responses and the known devices as they were; a snapshot fp has keeps its
\* online flag, its sku and every attribute the command does not assign; when
\* fp has no snapshot the command notifies nobody.
C27_CommandFrame ==
  [][ \A fp \in Fingerprints, cmd \in Commands :
        (/\ outcome'.op = cmd.name
         /\ outcome'.fingerprint = fp
         /\ outcome'.result = "ok") =>
          /\ DOMAIN device_state_cache' = DOMAIN device_state_cache
          /\ \A f \in DOMAIN device_state_cache :
                SameOn(device_state_cache'[f], device_state_cache[f],
                       IF f = fp
                       THEN (Attributes \cup {"online"}) \ Written(cmd)
                       ELSE Attributes \cup {"online", "last_updated"})
          /\ fp \notin DOMAIN device_state_cache => notified' = <<>>
          /\ device_last_response' = device_last_response
          /\ known_devices' = known_devices
    ]_vars

\* C27 witness: a command has just returned for a device that has no snapshot
\* while a subscriber is registered for it, and a command has changed the
\* snapshot of a device that has one.
C27_Witness ==
  /\ outcome.op \in CommandNames
  /\ outcome.result = "ok"
  /\ outcome.fingerprint \notin DOMAIN device_state_cache
  /\ callbacks_of(device_entity_callbacks, outcome.fingerprint) # <<>>
  /\ notified = <<>>
  /\ \E f \in DOMAIN device_state_cache :
       /\ device_state_cache[f].last_updated = now
       /\ device_state_cache[f].scene = Some(KwargEffect)
       /\ ~ device_state_cache[f].online


\* ------------------------------------- callbacks that change the registry

\* Number of notifications of a run of FanoutSpec.
MaxFanouts == 2
\* Longest list of callbacks FanoutInit registers.
MaxSubscribers == 3

\* Subscribers whose callback calls back into the coordinator: "once"
\* unregisters itself when it is invoked, "adder" registers "late"; "late" and
\* "cb" leave the registry alone ("cb" raises).
Subscribers == {"cb", "once", "adder", "late"}

\* The registry after the callback cb of fp ran.
callback_ran(cbs, fp, cb) ==
  CASE cb = "once" -> unregistered(cbs, fp, "once")
    [] cb = "adder" -> registered(cbs, fp, "late")
    [] OTHER -> cbs

\* _notify_device_entities with callbacks that change the registry: the for
\* loop walks the list of the registry itself, by position, and meets the list
\* as the callbacks before left it. From position i on, with the invocations
\* made so far: the registry it leaves and the invocations, in order.
RECURSIVE notify_device_entities_reentrant(_, _, _, _)
notify_device_entities_reentrant(cbs, fp, i, calls) ==
  IF fp \notin DOMAIN cbs \/ i > Len(cbs[fp])
  THEN [registry |-> cbs, calls |-> calls]
  ELSE LET cb == cbs[fp][i]
       IN notify_device_entities_reentrant(
            callback_ran(cbs, fp, cb), fp, i + 1,
            Append(calls, [fingerprint |-> fp, callback |-> cb,
                           raised |-> cb \in Raising]))

\* The lists register_device_entity can have built: no callback twice.
SubscriberLists ==
  { s \in UNION { [1..n -> Subscribers] : n \in 0..MaxSubscribers } :
      \A i, j \in DOMAIN s : s[i] = s[j] => i = j }

\* The coordinator after both devices announced themselves at time 0 to the
\* wired coordinator, with the subscribers of AA:BB registered.
FanoutInit ==
  \E s \in SubscriberLists :
    \E dev \in [Fingerprints -> UNION {DeviceStates(f) : f \in Fingerprints}] :
      /\ \A f \in Fingerprints : dev[f] \in DeviceStates(f)
      /\ now = 0
      /\ device_state_cache =
           [f \in Fingerprints |->
              update_device_state_cache(EmptyDict, f, dev[f], 0)[f]]
      /\ device_last_response = [f \in Fingerprints |-> 0]
      /\ response_order = <<"AA:BB", "CC:DD">>
      /\ device_entity_callbacks = [f \in {"AA:BB"} |-> s]
      /\ known_devices = Fingerprints
      /\ discovery_callback = Some("light")
      /\ discovery_handlers = {"light"}
      /\ device = dev
      /\ update_callback = [f \in Fingerprints |-> "coordinator"]
      /\ light = EmptyDict
      /\ call = NoCall
      /\ notified = <<>>
      /\ transport = <<>>
      /\ outcome = Quiet
      /\ steps = 0

\* A status push of fp handled by _handle_device_update, the callbacks of the
\* notification free to change the registry.
status_push_reentrant(fp, dev) ==
  /\ steps < MaxFanouts
  /\ steps' = steps + 1
  /\ slot_of(fp) = "coordinator"
  /\ device' = Put(device, fp, dev)
  /\ LET cache1 == update_device_state_cache(device_state_cache, fp, dev, now)
         ran == notify_device_entities_reentrant(device_entity_callbacks, fp, 1, <<>>)
     IN /\ response_order' = PutOrder(response_order, device_last_response, fp)
        /\ device_last_response' = Put(device_last_response, fp, now)
        /\ device_state_cache' = cache1
        /\ device_entity_callbacks' = ran.registry
        /\ notified' = ran.calls
        /\ light' = lights_notified(light, cache1, ran.calls)
  /\ transport' = <<>>
  /\ outcome' = [op |-> "status", fingerprint |-> fp, result |-> "ok", seen |-> None]
  /\ UNCHANGED << now, known_devices, discovery_callback, discovery_handlers,
                  update_callback, call >>

FanoutNext ==
  \E fp \in Fingerprints : \E dev \in DeviceStates(fp) : status_push_reentrant(fp, dev)

FanoutSpec == FanoutInit /\ [][FanoutNext]_vars

\* C28: a notification invokes once every callback that was registered for
\* the fingerprint when it began and is registered still when it ends,
\* whatever the callbacks it invokes register or unregister.
C28_FanoutReachesAll ==
  [][ \A fp \in Fingerprints :
        (outcome'.op = "status" /\ outcome'.fingerprint = fp) =>
          \A cb \in Subscribers :
            (/\ InSeq(cb, callbacks_of(device_entity_callbacks, fp))
             /\ InSeq(cb, callbacks_of(device_entity_callbacks', fp)))
              => Times(cb, InvokedFor(notified', fp)) = 1
    ]_vars

====
